---------------------------- MODULE Spec2Model ----------------------------
(***************************************************************************)
(* A model of the telco core of nig-utils: the normalization engine        *)
(* (normalizePhone), provider detection (getTelco, PREFIX_MAP), the        *)
(* derived-info builder (getPhoneInfo, splitPhoneParts) and the LRU        *)
(* result cache (LRUCache, phoneInfoCache), and of formatNaira of the      *)
(* money module.                                                           *)
(*                                                                         *)
(* A JavaScript string is modelled as a sequence of one-character strings; *)
(* a thrown error as a result record with ok = FALSE and the error kind.   *)
(***************************************************************************)
EXTENDS Integers, Sequences, FiniteSets, TLC

VARIABLES
    phone,      \* the string argument of the call under consideration
    op,         \* the public function that was called last ("init": none yet)
    format,     \* the format argument of the call
    result,     \* what the call returned or threw
    thrown,     \* the kind of error the call threw ("none": it returned)
    phones,     \* the array argument of a batch call
    telco,      \* the provider argument of generateRandomPhone
    random,     \* what the Math.random() calls of generateRandomPhone gave
    amount,     \* the amount argument of formatNaira
    options,    \* the options argument of formatNaira
    cache,      \* LRUCache.cache: the entries of the Map, in insertion order
    maxSize,    \* LRUCache.maxSize
    call,       \* the LRUCache method called last, with its arguments
    ret,        \* what that method returned
    prev,       \* the entries before that call
    uses,       \* the keys stored, from the least to the most recently
                \* set or successfully got (history, not read by the code)
    prevUses,   \* that history before the call
    pc,         \* where each caller of getPhoneInfo stands
    arg,        \* each caller's argument
    info,       \* each caller's local PhoneInfo (cached, or result)
    PREFIX_MAP, \* constants.ts: the entries of the Map from prefix to provider
    REGEX_CACHE \* constants.ts: the entries of the Map from pattern to RegExp

callVars == <<phone, op, format, result, thrown, phones>>

histVars == <<call, ret, prev, uses, prevUses>>

lruVars == <<cache, maxSize, call, ret, prev, uses, prevUses>>

raceVars == <<pc, arg, info>>

tableVars == <<PREFIX_MAP, REGEX_CACHE>>

randVars == <<telco, random>>

moneyVars == <<amount, options>>

vars == <<phone, op, format, result, thrown, phones, cache, maxSize, call, ret,
          prev, uses, prevUses, pc, arg, info, PREFIX_MAP, REGEX_CACHE, telco,
          random, amount, options>>

(***************************************************************************)
(* Characters and strings                                                  *)
(***************************************************************************)
DigitChar == <<"0", "1", "2", "3", "4", "5", "6", "7", "8", "9">>

\* the characters matched by \d (JavaScript: ASCII digits only)
Digits == {DigitChar[i] : i \in 1..10}

\* a digit string written as a tuple of numbers: S(<<0,8,0,3>>) is '0803'
S(ds) == [i \in 1..Len(ds) |-> DigitChar[ds[i] + 1]]

\* String.prototype.slice(from) and slice(0, to)
sliceFrom(s, from) == SubSeq(s, from + 1, Len(s))

sliceTo(s, to) == SubSeq(s, 1, IF to < Len(s) THEN to ELSE Len(s))

startsWith(s, p) == Len(s) >= Len(p) /\ SubSeq(s, 1, Len(p)) = p

\* JavaScript's undefined, as a key or a value of a Map; it is no string of the
\* model, whose strings hold one-character elements only
Undefined == <<"undefined">>

Null == "null"

\* a format argument that was left out
Omitted == "omitted"

(***************************************************************************)
(* constants.ts: PATTERNS                                                  *)
(***************************************************************************)
\* phone.replace(PATTERNS.CLEANUP, ''): /[^\d+]/g deletes every character
\* that is neither a digit nor '+', wherever it stands
\* a cleanup that keeps a '+' only as the leading character
CLEANUP_LeadingPlusOnly(s) ==
    LET d == SelectSeq(s, LAMBDA c : c \in Digits)
    IN  IF s # <<>> /\ s[1] = "+" THEN <<"+">> \o d ELSE d

\* a cleanup that deletes spaces and hyphens only
CLEANUP_SpacesAndHyphens(s) == SelectSeq(s, LAMBDA c : c \notin {" ", "-"})

CLEANUP(s) == SelectSeq(s, LAMBDA c : c \in Digits \cup {"+"})

\* PATTERNS.E164_VALIDATION.test(s): /^\+234\d{10}$/
E164_VALIDATION(s) ==
    /\ Len(s) = 14
    /\ SubSeq(s, 1, 4) = <<"+", "2", "3", "4">>
    /\ \A i \in 5..14 : s[i] \in Digits

(***************************************************************************)
(* normalizePhone                                                          *)
(***************************************************************************)
\* PATTERNS.LOCAL_VALIDATION.test(s): /^0\d{10}$/
LOCAL_VALIDATION(s) ==
    /\ Len(s) = 11
    /\ s[1] = "0"
    /\ \A i \in 2..11 : s[i] \in Digits

\* PATTERNS.INTERNATIONAL_VALIDATION.test(s): /^\+234\d{10}$/
INTERNATIONAL_VALIDATION(s) ==
    /\ Len(s) = 14
    /\ SubSeq(s, 1, 4) = <<"+", "2", "3", "4">>
    /\ \A i \in 5..14 : s[i] \in Digits

Formats == {"e164", "international", "local", Omitted}

\* the values of the type PhoneFormat
PhoneFormat == {"e164", "international", "local"}

\* the six failures of normalizePhone, told apart in the code by the message:
\*   EmptyOrNonStringInput  TypeError 'Phone number must be a non-empty string'
\*   InvalidLength          'Invalid phone number length: ...'
\*   InvalidCountryCode     'Invalid country code: ...'
\*   InvalidLocalNumber     'Invalid local number: ...'
\*   InvalidFormat          'Invalid phone number format: ...'
\*   InvalidNigerianNumber  'Invalid Nigerian phone number: ...'
Return(v) == [ok |-> TRUE, value |-> v, error |-> "none"]

Throw(kind) == [ok |-> FALSE, value |-> <<>>, error |-> kind]

\* a switch that repairs a 10-character number with a leading 0 and lets a
\* number that begins with 2 fall through to the default branch
Classify_Lenient(cleaned) ==
    LET firstChar == cleaned[1]
    IN  CASE firstChar = "+" ->
               IF startsWith(cleaned, <<"+", "2", "3", "4">>)
               THEN Return(cleaned)
               ELSE Throw("InvalidCountryCode")
          [] firstChar = "2" /\ startsWith(cleaned, <<"2", "3", "4">>) /\ Len(cleaned) # 10 ->
               Return(<<"+">> \o cleaned)
          [] firstChar = "0" /\ Len(cleaned) # 10 ->
               IF Len(cleaned) = 11
               THEN Return(<<"+", "2", "3", "4">> \o sliceFrom(cleaned, 1))
               ELSE Throw("InvalidLength")
          [] OTHER ->
               IF Len(cleaned) = 10
               THEN Return(<<"+", "2", "3", "4">> \o cleaned)
               ELSE Throw("InvalidFormat")

\* the switch on cleaned[0]: the candidate canonical form, or the throw
Classify(cleaned) ==
    LET firstChar == cleaned[1]
    IN  CASE firstChar = "+" ->
               IF startsWith(cleaned, <<"+", "2", "3", "4">>)
               THEN Return(cleaned)
               ELSE Throw("InvalidCountryCode")
          [] firstChar = "2" ->
               IF startsWith(cleaned, <<"2", "3", "4">>)
               THEN Return(<<"+">> \o cleaned)
               ELSE Throw("InvalidCountryCode")
          [] firstChar = "0" ->
               IF Len(cleaned) = 11
               THEN Return(<<"+", "2", "3", "4">> \o sliceFrom(cleaned, 1))
               ELSE IF Len(cleaned) = 10
                    THEN Throw("InvalidLocalNumber")
                    ELSE Throw("InvalidLength")
          [] OTHER ->
               IF Len(cleaned) = 10
               THEN Return(<<"+", "2", "3", "4">> \o cleaned)
               ELSE Throw("InvalidFormat")

\* a conversion whose international form drops the '+'
Convert_NoPlus(normalized, fmt) ==
    LET targetFormat == IF fmt = Omitted THEN "e164" ELSE fmt
    IN  IF targetFormat = "local"
        THEN <<"0">> \o sliceFrom(normalized, 4)
        ELSE IF targetFormat = "international"
             THEN sliceFrom(normalized, 1)
             ELSE normalized

\* a conversion whose local form is cut one character too far
Convert_SliceFive(normalized, fmt) ==
    LET targetFormat == IF fmt = Omitted THEN "e164" ELSE fmt
    IN  IF targetFormat = "local"
        THEN <<"0">> \o sliceFrom(normalized, 5)
        ELSE normalized

\* the format conversion at the end of normalizePhone
Convert(normalized, fmt) ==
    LET targetFormat == IF fmt = Omitted THEN "e164" ELSE fmt
    IN  IF targetFormat = "local"
        THEN <<"0">> \o sliceFrom(normalized, 4)
        ELSE normalized

\* a normalizePhone that checks the length after the classification
normalizePhone_LengthLast(p, fmt) ==
    IF Len(p) = 0
    THEN Throw("EmptyOrNonStringInput")
    ELSE LET cleaned == CLEANUP(p)
         IN  IF Len(cleaned) = 0
             THEN Throw("InvalidLength")
             ELSE LET cand == Classify(cleaned)
                  IN  IF ~cand.ok
                      THEN cand
                      ELSE IF Len(cleaned) < 10 \/ Len(cleaned) > 14
                           THEN Throw("InvalidLength")
                           ELSE IF ~E164_VALIDATION(cand.value)
                                THEN Throw("InvalidNigerianNumber")
                                ELSE Return(Convert(cand.value, fmt))

\* normalizePhone for a string argument (typeof phone === 'string'): the
\* value returned, or the error thrown
normalizePhone(p, fmt) ==
    IF Len(p) = 0
    THEN Throw("EmptyOrNonStringInput")
    ELSE LET cleaned == CLEANUP(p)
         IN  IF Len(cleaned) < 10 \/ Len(cleaned) > 14
             THEN Throw("InvalidLength")
             ELSE LET cand == Classify(cleaned)
                  IN  IF ~cand.ok
                      THEN cand
                      ELSE IF ~E164_VALIDATION(cand.value)
                           THEN Throw("InvalidNigerianNumber")
                           ELSE Return(Convert(cand.value, fmt))

(***************************************************************************)
(* A JavaScript Map: its entries in insertion order                        *)
(***************************************************************************)
MapHas(m, k) == \E i \in 1..Len(m) : m[i].key = k

\* Map.prototype.get: undefined for an absent key
MapGet(m, k) ==
    IF MapHas(m, k)
    THEN m[CHOOSE i \in 1..Len(m) : m[i].key = k].value
    ELSE Undefined

\* Map.prototype.set: a present key keeps its place, a new key goes last
MapSet(m, k, v) ==
    IF MapHas(m, k)
    THEN [i \in 1..Len(m) |-> IF m[i].key = k THEN [key |-> k, value |-> v] ELSE m[i]]
    ELSE Append(m, [key |-> k, value |-> v])

MapDelete(m, k) == SelectSeq(m, LAMBDA e : e.key # k)

\* map.keys().next().value: the first key, undefined for an empty map
MapFirstKey(m) == IF Len(m) = 0 THEN Undefined ELSE m[1].key

MapKeys(m) == {m[i].key : i \in 1..Len(m)}

(***************************************************************************)
(* cache.ts: LRUCache                                                      *)
(***************************************************************************)
\* a get that returns the value and leaves the entry where it is
LRUCache_get_NoPromote(m, key) ==
    [cache |-> m, ret |-> MapGet(m, key)]

\* get(key): the entries afterwards and the value returned
LRUCache_get(m, key) ==
    IF MapHas(m, key)
    THEN LET value == MapGet(m, key)
         IN  [cache |-> MapSet(MapDelete(m, key), key, value), ret |-> value]
    ELSE [cache |-> m, ret |-> Undefined]

\* a set that never looks for the key: it makes room and appends
LRUCache_set_NoReplace(m, max, key, value) ==
    LET kept ==
          IF Len(m) >= max
          THEN LET firstKey == MapFirstKey(m)
               IN  IF firstKey # Undefined THEN MapDelete(m, firstKey) ELSE m
          ELSE m
    IN  Append(kept, [key |-> key, value |-> value])

\* set(key, value): the entries afterwards
LRUCache_set(m, max, key, value) ==
    LET kept ==
          IF MapHas(m, key)
          THEN MapDelete(m, key)
          ELSE IF Len(m) >= max
               THEN LET firstKey == MapFirstKey(m)
                    IN  IF firstKey # Undefined THEN MapDelete(m, firstKey) ELSE m
               ELSE m
    IN  MapSet(kept, key, value)

LRUCache_clear(m) == <<>>

LRUCache_size(m) == Len(m)

LRUCache_has(m, key) == MapHas(m, key)

\* a delete that answers true whether or not the key was stored
LRUCache_delete_AlwaysTrue(m, key) == [cache |-> MapDelete(m, key), ret |-> TRUE]

\* delete(key): the entries afterwards and Map.prototype.delete's answer
LRUCache_delete(m, key) == [cache |-> MapDelete(m, key), ret |-> MapHas(m, key)]

(***************************************************************************)
(* constants.ts: TELCO_DATA and PREFIX_MAP                                 *)
(***************************************************************************)
\* Object.entries(TELCO_DATA) lists the providers in this order
Providers == <<"MTN", "GLO", "AIRTEL", "9MOBILE">>

TELCO_DATA ==
    [t \in {Providers[i] : i \in 1..Len(Providers)} |->
       CASE t = "MTN" ->
              << S(<<0,7,0,3>>), S(<<0,7,0,4>>), S(<<0,7,0,6>>), S(<<0,7,0,2,5>>),
                 S(<<0,7,0,2,6>>), S(<<0,8,0,3>>), S(<<0,8,0,6>>), S(<<0,8,1,0>>),
                 S(<<0,8,1,3>>), S(<<0,8,1,4>>), S(<<0,8,1,6>>), S(<<0,9,0,3>>),
                 S(<<0,9,0,6>>), S(<<0,9,1,3>>), S(<<0,9,1,6>>) >>
         [] t = "GLO" ->
              << S(<<0,7,0,5>>), S(<<0,8,0,5>>), S(<<0,8,0,7>>), S(<<0,8,1,1>>),
                 S(<<0,8,1,5>>), S(<<0,9,0,5>>), S(<<0,9,1,5>>) >>
         [] t = "AIRTEL" ->
              << S(<<0,7,0,1>>), S(<<0,7,0,8>>), S(<<0,8,0,2>>), S(<<0,8,0,8>>),
                 S(<<0,8,1,2>>), S(<<0,9,0,1>>), S(<<0,9,0,2>>), S(<<0,9,0,7>>),
                 S(<<0,9,1,2>>) >>
         [] t = "9MOBILE" ->
              << S(<<0,8,0,9>>), S(<<0,8,1,7>>), S(<<0,8,1,8>>), S(<<0,9,0,8>>),
                 S(<<0,9,0,9>>) >>]

\* an inner loop that registers the 4-character prefixes only
RECURSIVE SetPrefixes_FourOnly(_, _, _)
SetPrefixes_FourOnly(m, provider, prefixes) ==
    IF prefixes = <<>>
    THEN m
    ELSE SetPrefixes_FourOnly(IF Len(Head(prefixes)) = 4
                              THEN MapSet(m, Head(prefixes), provider)
                              ELSE m,
                              provider, Tail(prefixes))

\* the inner loop of the initializer: PREFIX_MAP.set(prefix, provider)
RECURSIVE SetPrefixes(_, _, _)
SetPrefixes(m, provider, prefixes) ==
    IF prefixes = <<>>
    THEN m
    ELSE SetPrefixes(MapSet(m, Head(prefixes), provider), provider, Tail(prefixes))

\* the outer loop of the initializer, over Object.entries(TELCO_DATA)
RECURSIVE InitPrefixMap(_, _)
InitPrefixMap(m, providers) ==
    IF providers = <<>>
    THEN m
    ELSE InitPrefixMap(SetPrefixes(m, Head(providers), TELCO_DATA[Head(providers)]),
                       Tail(providers))

\* the entries of PREFIX_MAP when its initializer has run
PrefixMapLoaded == InitPrefixMap(<<>>, Providers)

\* constants.ts as loaded: PREFIX_MAP initialized, and an empty REGEX_CACHE
ModuleLoaded ==
    /\ PREFIX_MAP = PrefixMapLoaded
    /\ REGEX_CACHE = <<>>

\* getTelcoByPrefix: PREFIX_MAP.get(prefix) ?? null; the values of PREFIX_MAP
\* are providers, so the result is null exactly for an absent key
getTelcoByPrefix(prefix) ==
    IF MapHas(PREFIX_MAP, prefix) THEN MapGet(PREFIX_MAP, prefix) ELSE Null

(***************************************************************************)
(* getTelco                                                                *)
(***************************************************************************)
\* a detection that probes the 4-character prefix only
DetectTelco_FourOnly(normalized) ==
    LET localFormat == <<"0">> \o sliceFrom(normalized, 4)
        prefix4 == sliceTo(localFormat, 4)
    IN  IF MapHas(PREFIX_MAP, prefix4) THEN MapGet(PREFIX_MAP, prefix4) ELSE Null

\* the body of the try block, for the canonical form normalizePhone returned;
\* PREFIX_MAP holds providers only, so get(prefix4) ?? null is null exactly
\* for an absent key
DetectTelco(normalized) ==
    LET localFormat == <<"0">> \o sliceFrom(normalized, 4)
        prefix5 == sliceTo(localFormat, 5)
        prefix4 == sliceTo(localFormat, 4)
    IN  IF MapHas(PREFIX_MAP, prefix5)
        THEN MapGet(PREFIX_MAP, prefix5)
        ELSE IF MapHas(PREFIX_MAP, prefix4)
             THEN MapGet(PREFIX_MAP, prefix4)
             ELSE Null

getTelco(p) ==
    LET r == normalizePhone(p, Omitted)
    IN  IF r.ok THEN DetectTelco(r.value) ELSE Null

\* formatPhoneToInternational and formatPhoneToLocal
formatPhoneToInternational(p) == normalizePhone(p, "international")

formatPhoneToLocal(p) == normalizePhone(p, "local")

(***************************************************************************)
(* splitPhoneParts and getPhoneInfo                                        *)
(***************************************************************************)
\* a splitPhoneParts whose number is what follows the matched prefix
splitPhoneParts_AfterPrefix(p) ==
    LET r == normalizePhone(p, Omitted)
    IN  IF ~r.ok
        THEN [ok |-> FALSE, error |-> r.error, prefix |-> <<>>, telco |-> Null,
              number |-> <<>>]
        ELSE LET localFormat == <<"0">> \o sliceFrom(r.value, 4)
                 prefix5 == sliceTo(localFormat, 5)
                 prefix4 == sliceTo(localFormat, 4)
                 prefix == IF MapHas(PREFIX_MAP, prefix5) THEN prefix5
                           ELSE IF MapHas(PREFIX_MAP, prefix4) THEN prefix4 ELSE <<>>
             IN  [ok |-> TRUE, error |-> "none", prefix |-> prefix,
                  telco |-> DetectTelco(r.value),
                  number |-> sliceFrom(localFormat, Len(prefix))]

\* a splitPhoneParts that answers a rejected input with empty parts
splitPhoneParts_EmptyParts(p) ==
    LET r == normalizePhone(p, Omitted)
    IN  [ok |-> TRUE, error |-> "none",
         prefix |-> IF r.ok THEN sliceTo(<<"0">> \o sliceFrom(r.value, 4), 4) ELSE <<>>,
         telco |-> IF r.ok THEN DetectTelco(r.value) ELSE Null,
         number |-> IF r.ok THEN sliceFrom(r.value, 4) ELSE <<>>]

\* splitPhoneParts: the parts, or the error normalizePhone threw; a provider
\* is a non-empty string, so `if (telco5)` and `telco4 ?` test presence
splitPhoneParts(p) ==
    LET r == normalizePhone(p, Omitted)
    IN  IF ~r.ok
        THEN [ok |-> FALSE, error |-> r.error, prefix |-> <<>>, telco |-> Null,
              number |-> <<>>]
        ELSE LET normalized == r.value
                 localFormat == <<"0">> \o sliceFrom(normalized, 4)
                 prefix5 == sliceTo(localFormat, 5)
                 prefix4 == sliceTo(localFormat, 4)
             IN  IF MapHas(PREFIX_MAP, prefix5)
                 THEN [ok |-> TRUE, error |-> "none", prefix |-> prefix5,
                       telco |-> MapGet(PREFIX_MAP, prefix5),
                       number |-> sliceFrom(normalized, 4)]
                 ELSE [ok |-> TRUE, error |-> "none",
                       prefix |-> IF MapHas(PREFIX_MAP, prefix4) THEN prefix4 ELSE <<>>,
                       telco |-> IF MapHas(PREFIX_MAP, prefix4)
                                 THEN MapGet(PREFIX_MAP, prefix4)
                                 ELSE Null,
                       number |-> sliceFrom(normalized, 4)]

\* a builder that reads the format tag off the cleaned input
ComputeInfo_TagOfCleaned(p) ==
    LET n == normalizePhone(p, Omitted)
    IN  [original |-> p,
         normalized |-> IF n.ok THEN n.value ELSE <<>>,
         telco |-> getTelco(p),
         isValid |-> n.ok,
         format |-> IF n.ok /\ CLEANUP(p)[1] = "+" THEN "international"
                    ELSE IF n.ok /\ CLEANUP(p)[1] = "0" THEN "local" ELSE "e164",
         prefix |-> IF n.ok THEN splitPhoneParts(p).prefix ELSE <<>>,
         number |-> IF n.ok THEN splitPhoneParts(p).number ELSE <<>>]

\* a builder that records the cleaned input as the original
ComputeInfo_CleanedOriginal(p) ==
    LET n == normalizePhone(p, Omitted)
    IN  [original |-> CLEANUP(p),
         normalized |-> IF n.ok THEN n.value ELSE <<>>,
         telco |-> getTelco(p),
         isValid |-> n.ok,
         format |-> IF n.ok /\ p[1] = "+" THEN "international"
                    ELSE IF n.ok /\ p[1] = "0" THEN "local" ELSE "e164",
         prefix |-> IF n.ok THEN splitPhoneParts(p).prefix ELSE <<>>,
         number |-> IF n.ok THEN splitPhoneParts(p).number ELSE <<>>]

\* a builder that reads the format tag off the input before the try block
ComputeInfo_TagFirst(p) ==
    LET n == normalizePhone(p, Omitted)
        tag == IF p = <<>> THEN "e164"
               ELSE IF p[1] = "+" THEN "international"
               ELSE IF p[1] = "0" THEN "local" ELSE "e164"
    IN  [original |-> p,
         normalized |-> IF n.ok THEN n.value ELSE <<>>,
         telco |-> getTelco(p),
         isValid |-> n.ok,
         format |-> tag,
         prefix |-> IF n.ok THEN splitPhoneParts(p).prefix ELSE <<>>,
         number |-> IF n.ok THEN splitPhoneParts(p).number ELSE <<>>]

\* getPhoneInfo after a cache miss: the try block and its catch
ComputeInfo(p) ==
    LET n == normalizePhone(p, Omitted)
        parts == splitPhoneParts(p)
    IN  IF n.ok /\ parts.ok
        THEN [original |-> p,
              normalized |-> n.value,
              telco |-> getTelco(p),
              isValid |-> TRUE,
              format |-> IF p[1] = "+" THEN "international"
                         ELSE IF p[1] = "0" THEN "local" ELSE "e164",
              prefix |-> parts.prefix,
              number |-> parts.number]
        ELSE [original |-> p,
              normalized |-> <<>>,
              telco |-> Null,
              isValid |-> FALSE,
              format |-> "e164",
              prefix |-> <<>>,
              number |-> <<>>]

\* phoneInfoCache = new LRUCache<string, PhoneInfo>(1000)
phoneInfoCacheMaxSize == 1000

\* a getPhoneInfo that keeps its results under the canonical form
getPhoneInfo_KeyedByCanonical(m, max, p) ==
    LET key == IF normalizePhone(p, Omitted).ok
               THEN normalizePhone(p, Omitted).value
               ELSE p
        cached == LRUCache_get(m, key)
    IN  IF MapHas(m, key)
        THEN [cache |-> cached.cache, ret |-> Return(cached.ret)]
        ELSE [cache |-> LRUCache_set(cached.cache, max, key, ComputeInfo(p)),
              ret |-> Return(ComputeInfo(p))]

\* a getPhoneInfo that empties a full cache before it stores
getPhoneInfo_ClearsWhenFull(m, max, p) ==
    LET cached == LRUCache_get(m, p)
    IN  IF MapHas(m, p)
        THEN [cache |-> cached.cache, ret |-> Return(cached.ret)]
        ELSE [cache |-> LRUCache_set(IF Len(m) >= max THEN <<>> ELSE m, max, p, ComputeInfo(p)),
              ret |-> Return(ComputeInfo(p))]

\* a getPhoneInfo that keeps its results under the cleaned string
getPhoneInfo_KeyedByCleaned(m, max, p) ==
    LET key == CLEANUP(p)
        cached == LRUCache_get(m, key)
    IN  IF MapHas(m, key)
        THEN [cache |-> cached.cache, ret |-> Return(cached.ret)]
        ELSE [cache |-> LRUCache_set(cached.cache, max, key, ComputeInfo(p)),
              ret |-> Return(ComputeInfo(p))]

\* getPhoneInfo(phone) on the phoneInfoCache with the entries m: the entries
\* afterwards and how the call ends. A stored PhoneInfo is an object, so
\* `if (cached)` is taken exactly on a hit; nothing outside the try block
\* throws
getPhoneInfo(m, max, p) ==
    LET cached == LRUCache_get(m, p)
    IN  IF MapHas(m, p)
        THEN [cache |-> cached.cache, ret |-> Return(cached.ret)]
        ELSE [cache |-> LRUCache_set(cached.cache, max, p, ComputeInfo(p)),
              ret |-> Return(ComputeInfo(p))]

(***************************************************************************)
(* generateRandomPhone                                                     *)
(***************************************************************************)
\* a generateRandomPhone that adds 7 digits whatever the prefix
generateRandomPhone_SevenDigits(t, rnd) ==
    LET providers == IF t = Omitted THEN <<"MTN", "GLO", "AIRTEL", "9MOBILE">> ELSE <<t>>
        prefixes == TELCO_DATA[providers[rnd.provider + 1]]
    IN  normalizePhone(prefixes[rnd.prefix + 1] \o SubSeq(rnd.digits, 1, 7), Omitted)

\* generateRandomPhone(telco): how the call ends when Math.floor(Math.random()
\* * n) gives rnd.provider and rnd.prefix and the digits drawn are rnd.digits
generateRandomPhone(t, rnd) ==
    LET providers == IF t = Omitted THEN <<"MTN", "GLO", "AIRTEL", "9MOBILE">> ELSE <<t>>
        chosenProvider == providers[rnd.provider + 1]
        prefixes == TELCO_DATA[chosenProvider]
        prefix == prefixes[rnd.prefix + 1]
        digitsNeeded == 11 - Len(prefix)
        number == SubSeq(rnd.digits, 1, digitsNeeded)
    IN  normalizePhone(prefix \o number, Omitted)

(***************************************************************************)
(* getRegex, getPerformanceStats and clearCaches                           *)
(***************************************************************************)
\* new RegExp(pattern)
RegExp(pattern) == [source |-> pattern]

\* getRegex(pattern) on the REGEX_CACHE with the entries rc: the entries
\* afterwards and the RegExp returned. A RegExp is an object, so `!regex`
\* holds exactly for an absent pattern
getRegex(rc, pattern) ==
    IF MapHas(rc, pattern)
    THEN [cache |-> rc, ret |-> MapGet(rc, pattern)]
    ELSE [cache |-> MapSet(rc, pattern, RegExp(pattern)), ret |-> RegExp(pattern)]

\* getPerformanceStats() for the entries m of phoneInfoCache, rc of
\* REGEX_CACHE and pm of PREFIX_MAP
getPerformanceStats(m, rc, pm) ==
    [cacheSize |-> LRUCache_size(m), regexCacheSize |-> Len(rc), prefixMapSize |-> Len(pm)]

\* a clearCaches that clears the prefix index as well
clearCaches_EveryMap(m, rc, pm) ==
    [phoneInfoCache |-> <<>>, REGEX_CACHE |-> <<>>, PREFIX_MAP |-> <<>>]

\* clearCaches(): the entries of the three Maps afterwards
clearCaches(m, rc, pm) ==
    [phoneInfoCache |-> LRUCache_clear(m), REGEX_CACHE |-> <<>>, PREFIX_MAP |-> pm]

(***************************************************************************)
(* safeNormalizePhone, isValidNigerianNumber and the batch operations      *)
(***************************************************************************)
\* error.message of the error normalizePhone throws for the argument p
message(kind, p) ==
    CASE kind = "EmptyOrNonStringInput" -> <<"Phone number must be a non-empty string">>
      [] kind = "InvalidLength" -> <<"Invalid phone number length: ">> \o p
      [] kind = "InvalidCountryCode" -> <<"Invalid country code: ">> \o p
      [] kind = "InvalidLocalNumber" -> <<"Invalid local number: ">> \o p
      [] kind = "InvalidFormat" -> <<"Invalid phone number format: ">> \o p
      [] kind = "InvalidNigerianNumber" -> <<"Invalid Nigerian phone number: ">> \o p

\* a safeNormalizePhone whose catch always reports 'Unknown error'
safeNormalizePhone_UnknownError(p, fmt) ==
    LET r == normalizePhone(p, fmt)
    IN  IF r.ok
        THEN Return([success |-> TRUE, data |-> r.value, error |-> Null])
        ELSE Return([success |-> FALSE, data |-> Null, error |-> <<"Unknown error">>])

\* a safeNormalizePhone whose try has no catch: the error propagates
safeNormalizePhone_NoCatch(p, fmt) ==
    LET r == normalizePhone(p, fmt)
    IN  IF r.ok
        THEN Return([success |-> TRUE, data |-> r.value, error |-> Null])
        ELSE r

\* safeNormalizePhone: how the call ends. Every error normalizePhone throws
\* is an Error, so the catch reports its message
safeNormalizePhone(p, fmt) ==
    LET r == normalizePhone(p, fmt)
    IN  IF r.ok
        THEN Return([success |-> TRUE, data |-> r.value, error |-> Null])
        ELSE Return([success |-> FALSE, data |-> Null, error |-> message(r.error, p)])

\* s.replace(/^(?:234|0)/, '+234')
ReplaceLead(s) ==
    IF Len(s) >= 3 /\ SubSeq(s, 1, 3) = <<"2", "3", "4">>
    THEN <<"+", "2", "3", "4">> \o SubSeq(s, 4, Len(s))
    ELSE IF Len(s) >= 1 /\ s[1] = "0"
         THEN <<"+", "2", "3", "4">> \o SubSeq(s, 2, Len(s))
         ELSE s

\* isValidatedPhone for a string argument: how the call ends
isValidatedPhone(p) == Return(E164_VALIDATION(ReplaceLead(CLEANUP(p))))

\* an isValidNigerianNumber that converts the string itself
isValidNigerianNumber_OwnConversion(p) ==
    Return(E164_VALIDATION(ReplaceLead(CLEANUP(p))))

\* isValidNigerianNumber for a string argument: how the call ends
isValidNigerianNumber(p) ==
    IF Len(p) = 0
    THEN Return(FALSE)
    ELSE Return(normalizePhone(p, Omitted).ok)

\* validatePhoneFormat(phone, format): how the call ends
validatePhoneFormat(p, fmt) ==
    LET r == safeNormalizePhone(p, fmt)
    IN  IF ~r.ok
        THEN r
        ELSE IF ~r.value.success
             THEN Return(FALSE)
             ELSE Return(IF fmt = "local"
                         THEN LOCAL_VALIDATION(r.value.data)
                         ELSE IF fmt = "international"
                              THEN INTERNATIONAL_VALIDATION(r.value.data)
                              ELSE E164_VALIDATION(r.value.data))

\* phones.map(f), given how f ends on each element: the array of the values
\* returned, or the first error thrown
ArrayMap(outcomes) ==
    IF \E i \in 1..Len(outcomes) : ~outcomes[i].ok
    THEN Throw(outcomes[CHOOSE i \in 1..Len(outcomes) :
                          /\ ~outcomes[i].ok
                          /\ \A j \in 1..(i - 1) : outcomes[j].ok].error)
    ELSE Return([i \in 1..Len(outcomes) |-> outcomes[i].value])

\* a batchNormalizePhones that does not hand the format on
batchNormalizePhones_DefaultFormat(ps, fmt) ==
    ArrayMap([i \in 1..Len(ps) |-> safeNormalizePhone(ps[i], Omitted)])

batchNormalizePhones(ps, fmt) ==
    ArrayMap([i \in 1..Len(ps) |-> safeNormalizePhone(ps[i], fmt)])

batchGetTelcos(ps) ==
    ArrayMap([i \in 1..Len(ps) |-> Return(getTelco(ps[i]))])

batchValidatePhones(ps) ==
    ArrayMap([i \in 1..Len(ps) |-> isValidNigerianNumber(ps[i])])

(***************************************************************************)
(* money/index.ts: formatNaira                                             *)
(*                                                                         *)
(* An amount is a sign, whole naira and kobo (hundredths): the numbers     *)
(* with at most two decimals.  An options object has the fields that were  *)
(* given, among symbol, compact and decimals; the locale is the default,   *)
(* 'en-NG'.                                                                *)
(***************************************************************************)
Naira == <<"₦">>

isZero(a) == a.naira = 0 /\ a.kobo = 0

\* amount < 0
isNegativeAmount(a) == a.neg /\ ~isZero(a)

\* Math.abs(amount)
abs(a) == [a EXCEPT !.neg = FALSE]

\* String(n) for a natural number n
RECURSIVE NatToString(_)
NatToString(n) ==
    IF n < 10
    THEN <<DigitChar[n + 1]>>
    ELSE NatToString(n \div 10) \o <<DigitChar[(n % 10) + 1]>>

\* n in w digits, with leading zeros
RECURSIVE Padded(_, _)
Padded(n, w) ==
    IF w = 0 THEN <<>> ELSE Padded(n \div 10, w - 1) \o <<DigitChar[(n % 10) + 1]>>

\* the integer digits of en-NG: groups of three, separated by ','
RECURSIVE Grouped(_)
Grouped(n) ==
    IF n < 1000
    THEN NatToString(n)
    ELSE Grouped(n \div 1000) \o <<",">> \o Padded(n % 1000, 3)

\* new Intl.NumberFormat('en-NG', {style: 'currency', currency: 'NGN',
\* minimumFractionDigits: d, maximumFractionDigits: d}).format(a) for a >= 0
\* and d = 0 (a half rounds away from zero) or d >= 2
NumberFormat(a, d) ==
    IF d = 0
    THEN Naira \o Grouped(a.naira + (IF a.kobo >= 50 THEN 1 ELSE 0))
    ELSE Naira \o Grouped(a.naira) \o <<".">> \o Padded(a.kobo, 2)
               \o [i \in 1..(d - 2) |-> "0"]

\* formatted.replace('₦', by): the first '₦' only
ReplaceNaira(formatted, by) ==
    IF \E i \in 1..Len(formatted) : formatted[i] = "₦"
    THEN LET i == CHOOSE i \in 1..Len(formatted) :
                      /\ formatted[i] = "₦"
                      /\ \A j \in 1..(i - 1) : formatted[j] # "₦"
         IN  SubSeq(formatted, 1, i - 1) \o by \o SubSeq(formatted, i + 1, Len(formatted))
    ELSE formatted

\* value === Math.floor(value) ? value.toString() : value.toFixed(1), for
\* value = a / unit and a >= 0; toFixed takes the nearest tenth and of two
\* equally near the larger
Scaled(a, unit) ==
    LET q == a.naira \div unit
        r == a.naira % unit
        tenth == unit \div 10
        up == IF (r % tenth) >= (tenth \div 2) THEN 1 ELSE 0
        n == (q * 10) + (r \div tenth) + up
    IN  IF r = 0 /\ a.kobo = 0
        THEN NatToString(q)
        ELSE NatToString(n \div 10) \o <<".">> \o <<DigitChar[(n % 10) + 1]>>

\* the field of an options object, or its default
Option(o, field, default) == IF field \in DOMAIN o THEN o[field] ELSE default

RECURSIVE formatNaira(_, _)

formatCompactNaira(a, symbol, isNegative) ==
    LET absAmount == abs(a)
        sign == IF isNegative THEN <<"-">> ELSE <<>>
    IN  IF absAmount.naira >= 1000000000
        THEN sign \o symbol \o Scaled(absAmount, 1000000000) \o <<"B">>
        ELSE IF absAmount.naira >= 1000000
             THEN sign \o symbol \o Scaled(absAmount, 1000000) \o <<"M">>
             ELSE IF absAmount.naira >= 1000
                  THEN sign \o symbol \o Scaled(absAmount, 1000) \o <<"K">>
                  ELSE formatNaira(a, [symbol |-> symbol])

formatNaira(a, o) ==
    LET symbol == Option(o, "symbol", Naira)
        compact == Option(o, "compact", FALSE)
        decimals == Option(o, "decimals", 2)
        isNegative == isNegativeAmount(a)
        absAmount == abs(a)
        formatted == NumberFormat(absAmount, decimals)
        res == IF symbol = <<"N", "G", "N">>
               THEN ReplaceNaira(formatted, <<"N", "G", "N", " ">>)
               ELSE IF symbol = <<"N">>
                    THEN ReplaceNaira(formatted, <<"N", " ">>)
                    ELSE formatted
    IN  IF isZero(a)
        THEN symbol \o <<"0", ".", "0", "0">>
        ELSE IF compact
             THEN formatCompactNaira(absAmount, symbol, isNegative)
             ELSE IF isNegative THEN <<"-">> \o res ELSE res

(***************************************************************************)
(* The inputs                                                              *)
(***************************************************************************)
\* the longest run of digits put after a lead
MaxDigits == 12

\* what an input starts with
Leads ==
    { <<>>, <<"+">>, <<"0">>, <<"2">>,
      <<"+", "2", "3", "4">>, <<"2", "3", "4">>,
      <<"+", "1">>, <<"2", "3">>, <<"+", "2", "3", "5">>, <<"0", "0">> }

\* subscriber digits, repeated cyclically when more than 10 are asked for
Patterns ==
    { S(<<8, 0, 3, 1, 2, 3, 4, 5, 6, 7>>),
      S(<<2, 3, 4, 1, 2, 3, 4, 5, 6, 7>>),
      S(<<0, 8, 0, 3, 1, 2, 3, 4, 5, 6>>) }

Run(pat, n) == [i \in 1..n |-> pat[((i - 1) % Len(pat)) + 1]]

Bases == {l \o Run(pat, n) : l \in Leads, pat \in Patterns, n \in 0..MaxDigits}

\* characters put into an input: separators, and a '+'
Separators == {" ", "-", "("}

\* where a character is put into an input
InsertAt == {0, 1, 4, 5, 11}

Insert(s, p, c) == SubSeq(s, 1, p) \o <<c>> \o SubSeq(s, p + 1, Len(s))

\* the inputs that exercise normalization: every lead and length, with and
\* without one inserted character
NormInputs ==
    Bases \cup
    UNION { {Insert(b, p, c) : p \in InsertAt \cap (0..Len(b)),
                               c \in Separators \cup {"+"}} : b \in Bases }

\* 4- and 5-digit heads of a local number that no provider declares
UndeclaredHeads == {S(<<0,8,0,0>>), S(<<0,7,0,2,0>>), S(<<0,7,0,2,7>>), S(<<0,7,0,0>>)}

DeclaredPrefixes ==
    UNION { {TELCO_DATA[t][i] : i \in 1..Len(TELCO_DATA[t])} : t \in DOMAIN TELCO_DATA }

\* the inputs that exercise provider detection: an 11-digit local number for
\* every declared prefix and some undeclared ones, in the four spellings
TelcoInputs ==
    LET locals == {h \o Run(S(<<1,2,3,4,5,6,7>>), 11 - Len(h)) :
                     h \in DeclaredPrefixes \cup UndeclaredHeads}
    IN  UNION { { l, sliceFrom(l, 1),
                  <<"+", "2", "3", "4">> \o sliceFrom(l, 1),
                  <<"2", "3", "4">> \o sliceFrom(l, 1),
                  Insert(l, 4, " ") } : l \in locals }

\* the arguments that exercise getTelcoByPrefix besides whole numbers: the
\* declared prefixes, undeclared ones, and strings around a declared prefix
PrefixInputs ==
    DeclaredPrefixes \cup UndeclaredHeads \cup
    { S(<<0,8,0>>), S(<<0,8,0,3,1>>), S(<<0,7,0,2>>), S(<<8,0,3>>), S(<<0,7,0,2,5,1>>),
      <<" ">> \o S(<<0,8,0,3>>), <<"+", "2", "3", "4">> \o S(<<8,0,3>>) }

Inputs == NormInputs \cup TelcoInputs \cup PrefixInputs

\* the strings that stand beside the argument in the array of a batch call:
\* the empty string and a valid number
BatchMates == { <<>>, <<"+", "2", "3", "4">> \o S(<<7,0,2,5,1,2,3,4,5,6>>) }

\* the arrays of a batch call: empty, the argument alone, and the argument
\* before and after another string
Batches(p) == { <<>>, <<p>> } \cup UNION { { <<p, q>>, <<q, p>> } : q \in BatchMates }

(***************************************************************************)
(* The calls                                                               *)
(***************************************************************************)
NoCall == [op |-> "none", key |-> Undefined, value |-> Undefined]

\* no amount was given: 0
NoAmount == [neg |-> FALSE, naira |-> 0, kobo |-> 0]

\* no Math.random() call was made
NoRandom == [provider |-> 0, prefix |-> 0, digits |-> <<>>]

\* nobody is calling getPhoneInfo
NoCallers ==
    /\ pc = <<>>
    /\ arg = <<>>
    /\ info = <<>>

\* no exported function of the telco module is under consideration
NoPhoneCall ==
    /\ phone = <<>>
    /\ op = "init"
    /\ format = Omitted
    /\ result = Null
    /\ thrown = "none"
    /\ phones = <<>>
    /\ telco = Omitted
    /\ random = NoRandom
    /\ amount = NoAmount
    /\ options = <<>>

\* the module as loaded, and the argument of the call to come
Init ==
    /\ phone \in Inputs
    /\ op = "init"
    /\ format = Omitted
    /\ result = Null
    /\ thrown = "none"
    /\ phones = <<>>
    /\ telco = Omitted
    /\ random = NoRandom
    /\ amount = NoAmount
    /\ options = <<>>
    /\ cache = <<>>
    /\ maxSize = phoneInfoCacheMaxSize
    /\ call = NoCall
    /\ ret = Undefined
    /\ prev = <<>>
    /\ uses = <<>>
    /\ prevUses = <<>>
    /\ ModuleLoaded
    /\ NoCallers

NormalizePhoneCall(x) ==
    /\ phone' = x
    /\ \E f \in Formats :
         /\ format' = f
         /\ result' = normalizePhone(x, f)
    /\ thrown' = result'.error
    /\ op' = "normalizePhone"
    /\ phones' = <<>>
    /\ telco' = Omitted /\ random' = NoRandom
    /\ prev' = cache
    /\ UNCHANGED <<cache, maxSize, call, ret, uses, prevUses, raceVars, tableVars,
                   moneyVars>>

NormalizePhone ==
    /\ op = "init"
    /\ NormalizePhoneCall(phone)

\* getTelco: its body is one try block whose catch returns null
GetTelcoCall(x) ==
    /\ phone' = x
    /\ op' = "getTelco"
    /\ result' = getTelco(x)
    /\ thrown' = "none"
    /\ format' = Omitted
    /\ phones' = <<>>
    /\ telco' = Omitted /\ random' = NoRandom
    /\ prev' = cache
    /\ UNCHANGED <<cache, maxSize, call, ret, uses, prevUses, raceVars, tableVars,
                   moneyVars>>

GetTelco ==
    /\ op = "init"
    /\ GetTelcoCall(phone)

\* getTelcoByPrefix(phone): a Map lookup, which does not throw
GetTelcoByPrefix ==
    /\ op = "init"
    /\ op' = "getTelcoByPrefix"
    /\ result' = getTelcoByPrefix(phone)
    /\ thrown' = "none"
    /\ UNCHANGED <<phone, format, phones, lruVars, raceVars, tableVars, randVars, moneyVars>>

SafeNormalizePhoneCall(x) ==
    /\ phone' = x
    /\ \E f \in Formats :
         /\ format' = f
         /\ result' = safeNormalizePhone(x, f).value
         /\ thrown' = safeNormalizePhone(x, f).error
    /\ op' = "safeNormalizePhone"
    /\ phones' = <<>>
    /\ telco' = Omitted /\ random' = NoRandom
    /\ prev' = cache
    /\ UNCHANGED <<cache, maxSize, call, ret, uses, prevUses, raceVars, tableVars,
                   moneyVars>>

SafeNormalizePhone ==
    /\ op = "init"
    /\ SafeNormalizePhoneCall(phone)

ValidatePhoneFormatCall(x) ==
    /\ phone' = x
    /\ \E f \in PhoneFormat :
         /\ format' = f
         /\ result' = validatePhoneFormat(x, f).value
         /\ thrown' = validatePhoneFormat(x, f).error
    /\ op' = "validatePhoneFormat"
    /\ phones' = <<>>
    /\ telco' = Omitted /\ random' = NoRandom
    /\ prev' = cache
    /\ UNCHANGED <<cache, maxSize, call, ret, uses, prevUses, raceVars, tableVars,
                   moneyVars>>

ValidatePhoneFormat ==
    /\ op = "init"
    /\ ValidatePhoneFormatCall(phone)

IsValidatedPhone ==
    /\ op = "init"
    /\ op' = "isValidatedPhone"
    /\ result' = isValidatedPhone(phone).value
    /\ thrown' = isValidatedPhone(phone).error
    /\ UNCHANGED <<phone, format, phones, lruVars, raceVars, tableVars, randVars, moneyVars>>

IsValidNigerianNumberCall(x) ==
    /\ phone' = x
    /\ op' = "isValidNigerianNumber"
    /\ result' = isValidNigerianNumber(x).value
    /\ thrown' = isValidNigerianNumber(x).error
    /\ format' = Omitted
    /\ phones' = <<>>
    /\ telco' = Omitted /\ random' = NoRandom
    /\ prev' = cache
    /\ UNCHANGED <<cache, maxSize, call, ret, uses, prevUses, raceVars, tableVars,
                   moneyVars>>

IsValidNigerianNumber ==
    /\ op = "init"
    /\ IsValidNigerianNumberCall(phone)

SplitPhonePartsCall(x) ==
    /\ phone' = x
    /\ op' = "splitPhoneParts"
    /\ result' = splitPhoneParts(x)
    /\ thrown' = result'.error
    /\ format' = Omitted
    /\ phones' = <<>>
    /\ telco' = Omitted /\ random' = NoRandom
    /\ prev' = cache
    /\ UNCHANGED <<cache, maxSize, call, ret, uses, prevUses, raceVars, tableVars,
                   moneyVars>>

SplitPhoneParts ==
    /\ op = "init"
    /\ SplitPhonePartsCall(phone)

FormatPhoneToInternational ==
    /\ op = "init"
    /\ op' = "formatPhoneToInternational"
    /\ result' = formatPhoneToInternational(phone)
    /\ thrown' = result'.error
    /\ UNCHANGED <<phone, format, phones, lruVars, raceVars, tableVars, randVars, moneyVars>>

FormatPhoneToLocal ==
    /\ op = "init"
    /\ op' = "formatPhoneToLocal"
    /\ result' = formatPhoneToLocal(phone)
    /\ thrown' = result'.error
    /\ UNCHANGED <<phone, format, phones, lruVars, raceVars, tableVars, randVars, moneyVars>>

\* getPhoneInfo(x): prev keeps the entries the call found
GetPhoneInfoCall(x) ==
    /\ phone' = x
    /\ op' = "getPhoneInfo"
    /\ cache' = getPhoneInfo(cache, maxSize, x).cache
    /\ result' = getPhoneInfo(cache, maxSize, x).ret.value
    /\ thrown' = getPhoneInfo(cache, maxSize, x).ret.error
    /\ prev' = cache
    /\ format' = Omitted
    /\ phones' = <<>>
    /\ telco' = Omitted /\ random' = NoRandom
    /\ UNCHANGED <<maxSize, call, ret, uses,
                  prevUses, raceVars, tableVars, moneyVars>>

GetPhoneInfo ==
    /\ op = "init"
    /\ GetPhoneInfoCall(phone)

BatchNormalizePhonesCall(x) ==
    /\ phone' = x
    /\ \E ps \in Batches(x), f \in Formats :
         /\ phones' = ps
         /\ format' = f
         /\ result' = batchNormalizePhones(ps, f).value
         /\ thrown' = batchNormalizePhones(ps, f).error
    /\ op' = "batchNormalizePhones"
    /\ telco' = Omitted /\ random' = NoRandom
    /\ prev' = cache
    /\ UNCHANGED <<cache, maxSize, call, ret, uses, prevUses, raceVars, tableVars,
                   moneyVars>>

BatchNormalizePhones ==
    /\ op = "init"
    /\ BatchNormalizePhonesCall(phone)

BatchGetTelcosCall(x) ==
    /\ phone' = x
    /\ \E ps \in Batches(x) :
         /\ phones' = ps
         /\ result' = batchGetTelcos(ps).value
         /\ thrown' = batchGetTelcos(ps).error
    /\ op' = "batchGetTelcos"
    /\ format' = Omitted
    /\ telco' = Omitted /\ random' = NoRandom
    /\ prev' = cache
    /\ UNCHANGED <<cache, maxSize, call, ret, uses, prevUses, raceVars, tableVars,
                   moneyVars>>

BatchGetTelcos ==
    /\ op = "init"
    /\ BatchGetTelcosCall(phone)

BatchValidatePhonesCall(x) ==
    /\ phone' = x
    /\ \E ps \in Batches(x) :
         /\ phones' = ps
         /\ result' = batchValidatePhones(ps).value
         /\ thrown' = batchValidatePhones(ps).error
    /\ op' = "batchValidatePhones"
    /\ format' = Omitted
    /\ telco' = Omitted /\ random' = NoRandom
    /\ prev' = cache
    /\ UNCHANGED <<cache, maxSize, call, ret, uses, prevUses, raceVars, tableVars,
                   moneyVars>>

BatchValidatePhones ==
    /\ op = "init"
    /\ BatchValidatePhonesCall(phone)

Next ==
    \/ ValidatePhoneFormat
    \/ IsValidatedPhone
    \/ NormalizePhone
    \/ GetTelco
    \/ GetTelcoByPrefix
    \/ SafeNormalizePhone
    \/ IsValidNigerianNumber
    \/ SplitPhoneParts
    \/ FormatPhoneToInternational
    \/ FormatPhoneToLocal
    \/ GetPhoneInfo
    \/ BatchNormalizePhones
    \/ BatchGetTelcos
    \/ BatchValidatePhones

Spec == Init /\ [][Next]_vars

(***************************************************************************)
(* An LRUCache<K, V> and the calls of its methods                          *)
(***************************************************************************)
\* the largest maximum size an LRUCache is built with
MaxCap == 2

\* K: three strings, and undefined
Keys == {<<"a">>, <<"b">>, <<"c">>, Undefined}

\* V
Values == {<<"x">>, <<"y">>}

\* the history of uses after key was set or successfully got and the entries
\* became m
Used(u, key, m) ==
    SelectSeq(SelectSeq(u, LAMBDA k : k # key) \o <<key>>, LAMBDA k : MapHas(m, k))

\* new LRUCache(n)
CacheInit ==
    /\ cache = <<>>
    /\ maxSize \in 0..MaxCap
    /\ call = NoCall
    /\ ret = Undefined
    /\ prev = <<>>
    /\ uses = <<>>
    /\ prevUses = <<>>
    /\ ModuleLoaded
    /\ NoPhoneCall
    /\ NoCallers

CacheSet ==
    \E k \in Keys, v \in Values :
        /\ cache' = LRUCache_set(cache, maxSize, k, v)
        /\ call' = [op |-> "set", key |-> k, value |-> v]
        /\ ret' = Undefined
        /\ prev' = cache
        /\ uses' = Used(uses, k, cache')
        /\ prevUses' = uses
        /\ UNCHANGED <<maxSize, callVars, raceVars, tableVars, randVars, moneyVars>>

CacheGet ==
    \E k \in Keys :
        /\ cache' = LRUCache_get(cache, k).cache
        /\ call' = [op |-> "get", key |-> k, value |-> Undefined]
        /\ ret' = LRUCache_get(cache, k).ret
        /\ prev' = cache
        /\ uses' = IF MapHas(cache, k) THEN Used(uses, k, cache') ELSE uses
        /\ prevUses' = uses
        /\ UNCHANGED <<maxSize, callVars, raceVars, tableVars, randVars, moneyVars>>

CacheHas ==
    \E k \in Keys :
        /\ call' = [op |-> "has", key |-> k, value |-> Undefined]
        /\ ret' = LRUCache_has(cache, k)
        /\ prev' = cache
        /\ prevUses' = uses
        /\ UNCHANGED <<cache, uses, maxSize, callVars, raceVars, tableVars, randVars, moneyVars>>

CacheDelete ==
    \E k \in Keys :
        /\ cache' = LRUCache_delete(cache, k).cache
        /\ call' = [op |-> "delete", key |-> k, value |-> Undefined]
        /\ ret' = LRUCache_delete(cache, k).ret
        /\ prev' = cache
        /\ uses' = SelectSeq(uses, LAMBDA u : MapHas(cache', u))
        /\ prevUses' = uses
        /\ UNCHANGED <<maxSize, callVars, raceVars, tableVars, randVars, moneyVars>>

CacheClear ==
    /\ cache' = LRUCache_clear(cache)
    /\ call' = [op |-> "clear", key |-> Undefined, value |-> Undefined]
    /\ ret' = Undefined
    /\ prev' = cache
    /\ uses' = <<>>
    /\ prevUses' = uses
    /\ UNCHANGED <<maxSize, callVars, raceVars, tableVars, randVars, moneyVars>>

CacheNext == CacheSet \/ CacheGet \/ CacheHas \/ CacheDelete \/ CacheClear

SpecCache == CacheInit /\ [][CacheNext]_vars

(***************************************************************************)
(* getPhoneInfo called by several callers whose steps interleave between   *)
(* phoneInfoCache.get and phoneInfoCache.set                               *)
(***************************************************************************)
\* the callers
NumCallers == 2

Callers == 1..NumCallers

\* the raw strings getPhoneInfo is called with: a local number, an
\* international number of a 5-digit prefix, and an invalid input
InfoInputs ==
    { S(<<0,8,0,3,1,2,3,4,5,6,7>>),
      <<"+", "2", "3", "4">> \o S(<<7,0,2,5,1,2,3,4,5,6>>),
      S(<<1,2,3>>) }

\* phoneInfoCache = new LRUCache<string, PhoneInfo>(1000), with the maximum
\* size scaled down to 1..MaxCap so that the cache fills
RaceInit ==
    /\ cache = <<>>
    /\ maxSize \in 1..MaxCap
    /\ call = NoCall
    /\ ret = Undefined
    /\ prev = <<>>
    /\ uses = <<>>
    /\ prevUses = <<>>
    /\ ModuleLoaded
    /\ NoPhoneCall
    /\ pc = [c \in Callers |-> "idle"]
    /\ arg = [c \in Callers |-> <<>>]
    /\ info = [c \in Callers |-> Null]

\* a caller enters getPhoneInfo(x)
RaceCall ==
    \E c \in Callers, x \in InfoInputs :
        /\ pc[c] \in {"idle", "hit", "done"}
        /\ pc' = [pc EXCEPT ![c] = "get"]
        /\ arg' = [arg EXCEPT ![c] = x]
        /\ info' = [info EXCEPT ![c] = Null]
        /\ UNCHANGED <<cache, maxSize, histVars, callVars, tableVars, randVars, moneyVars>>

\* const cached = phoneInfoCache.get(phone); if (cached) return cached;
\* otherwise the result is built, which touches no shared state. A stored
\* PhoneInfo is an object, so cached is truthy exactly on a hit
RaceGet ==
    \E c \in Callers :
        /\ pc[c] = "get"
        /\ cache' = LRUCache_get(cache, arg[c]).cache
        /\ IF MapHas(cache, arg[c])
           THEN /\ info' = [info EXCEPT ![c] = LRUCache_get(cache, arg[c]).ret]
                /\ pc' = [pc EXCEPT ![c] = "hit"]
           ELSE /\ info' = [info EXCEPT ![c] = ComputeInfo(arg[c])]
                /\ pc' = [pc EXCEPT ![c] = "set"]
        /\ UNCHANGED <<arg, maxSize, histVars, callVars, tableVars, randVars, moneyVars>>

\* phoneInfoCache.set(phone, result); return result
RaceSet ==
    \E c \in Callers :
        /\ pc[c] = "set"
        /\ cache' = LRUCache_set(cache, maxSize, arg[c], info[c])
        /\ pc' = [pc EXCEPT ![c] = "done"]
        /\ UNCHANGED <<arg, info, maxSize, histVars, callVars, tableVars, randVars, moneyVars>>

RaceNext == RaceCall \/ RaceGet \/ RaceSet

SpecRace == RaceInit /\ [][RaceNext]_vars

(***************************************************************************)
(* getPhoneInfo called again and again by one caller                       *)
(***************************************************************************)
\* the raw strings of the calls: three spellings of one number, a number of
\* another provider, a rejected input and the empty string
SeqInputs ==
    { S(<<0,8,0,3,1,2,3,4,5,6,7>>),
      Insert(S(<<0,8,0,3,1,2,3,4,5,6,7>>), 4, " "),
      <<"+", "2", "3", "4">> \o S(<<8,0,3,1,2,3,4,5,6,7>>),
      S(<<0,7,0,2,5,1,2,3,4,5,6>>),
      S(<<1,2,3>>),
      <<>> }

\* the module as loaded, with the maximum size of phoneInfoCache scaled down
\* to 1..MaxCap so that the cache fills
InfoInit ==
    /\ cache = <<>>
    /\ maxSize \in 1..MaxCap
    /\ call = NoCall
    /\ ret = Undefined
    /\ prev = <<>>
    /\ uses = <<>>
    /\ prevUses = <<>>
    /\ ModuleLoaded
    /\ NoPhoneCall
    /\ NoCallers

InfoCall == \E x \in SeqInputs : GetPhoneInfoCall(x)

\* the patterns getRegex is called with
RegexPatterns == { <<"^", "0">>, <<"[", "7", "8", "9", "]">> }

\* getRegex(pattern)
GetRegex ==
    \E pattern \in RegexPatterns :
        /\ phone' = pattern
        /\ op' = "getRegex"
        /\ REGEX_CACHE' = getRegex(REGEX_CACHE, pattern).cache
        /\ result' = getRegex(REGEX_CACHE, pattern).ret
        /\ thrown' = "none"
        /\ prev' = cache
        /\ format' = Omitted
        /\ phones' = <<>>
        /\ telco' = Omitted /\ random' = NoRandom
        /\ UNCHANGED <<cache, maxSize, call, ret,
                      uses, prevUses, raceVars, PREFIX_MAP, moneyVars>>

\* getPerformanceStats()
GetPerformanceStats ==
    /\ phone' = <<>>
    /\ op' = "getPerformanceStats"
    /\ result' = getPerformanceStats(cache, REGEX_CACHE, PREFIX_MAP)
    /\ thrown' = "none"
    /\ prev' = cache
    /\ format' = Omitted
    /\ phones' = <<>>
    /\ telco' = Omitted /\ random' = NoRandom
    /\ UNCHANGED <<cache, maxSize, call, ret,
                  uses, prevUses, raceVars, tableVars, moneyVars>>

\* clearCaches()
ClearCaches ==
    /\ phone' = <<>>
    /\ op' = "clearCaches"
    /\ cache' = clearCaches(cache, REGEX_CACHE, PREFIX_MAP).phoneInfoCache
    /\ REGEX_CACHE' = clearCaches(cache, REGEX_CACHE, PREFIX_MAP).REGEX_CACHE
    /\ PREFIX_MAP' = clearCaches(cache, REGEX_CACHE, PREFIX_MAP).PREFIX_MAP
    /\ result' = Undefined
    /\ thrown' = "none"
    /\ prev' = cache
    /\ format' = Omitted
    /\ phones' = <<>>
    /\ telco' = Omitted /\ random' = NoRandom
    /\ UNCHANGED <<maxSize, call, ret, uses, prevUses, raceVars, moneyVars>>

InfoNext == InfoCall \/ GetRegex \/ GetPerformanceStats \/ ClearCaches

SpecInfo == InfoInit /\ [][InfoNext]_vars

(***************************************************************************)
(* formatNaira called once                                                 *)
(***************************************************************************)
\* amounts around the steps of the compact notation, with and without kobo;
\* the thousandths, millionths and billionths that lie half-way between two
\* tenths (1250: 1.25) are numbers a double holds exactly
AbsAmounts ==
    { [neg |-> FALSE, naira |-> n, kobo |-> 0] :
        n \in {0, 1, 500, 999, 1000, 1250, 1500, 999999, 1000000, 1500000,
               1000000000, 1500000000} } \cup
    { [neg |-> FALSE, naira |-> n, kobo |-> 50] : n \in {0, 999, 1500, 1234567} }

Amounts == AbsAmounts \cup { [a EXCEPT !.neg = TRUE] : a \in AbsAmounts \ {NoAmount} }

CurrencySymbol == {Naira, <<"N", "G", "N">>, <<"N">>}

AllOptions == [symbol : CurrencySymbol, compact : BOOLEAN, decimals : {0, 2, 3}]

\* the options objects: each field given or left out
MoneyFormatOptions ==
    UNION { { [f \in given |-> o[f]] : o \in AllOptions } :
              given \in SUBSET {"symbol", "compact", "decimals"} }

MoneyInit ==
    /\ phone = <<>>
    /\ op = "init"
    /\ format = Omitted
    /\ result = Null
    /\ thrown = "none"
    /\ phones = <<>>
    /\ telco = Omitted
    /\ random = NoRandom
    /\ amount \in Amounts
    /\ options \in MoneyFormatOptions
    /\ cache = <<>>
    /\ maxSize = phoneInfoCacheMaxSize
    /\ call = NoCall
    /\ ret = Undefined
    /\ prev = <<>>
    /\ uses = <<>>
    /\ prevUses = <<>>
    /\ ModuleLoaded
    /\ NoCallers

FormatNaira ==
    /\ op = "init"
    /\ op' = "formatNaira"
    /\ result' = formatNaira(amount, options)
    /\ thrown' = "none"
    /\ UNCHANGED <<phone, format, phones, lruVars, raceVars, tableVars, randVars, moneyVars>>

MoneyNext == FormatNaira

SpecMoney == MoneyInit /\ [][MoneyNext]_vars

(***************************************************************************)
(* generateRandomPhone called once                                         *)
(***************************************************************************)
\* the digits a call may draw: every first digit before '123456', all
\* zeros and all nines
RandomDigits ==
    { <<d>> \o S(<<1,2,3,4,5,6>>) : d \in Digits } \cup
    { Run(<<"0">>, 7), Run(<<"9">>, 7) }

RandomInit ==
    /\ cache = <<>>
    /\ maxSize = phoneInfoCacheMaxSize
    /\ call = NoCall
    /\ ret = Undefined
    /\ prev = <<>>
    /\ uses = <<>>
    /\ prevUses = <<>>
    /\ ModuleLoaded
    /\ NoPhoneCall
    /\ NoCallers

\* generateRandomPhone(t) or generateRandomPhone(); Math.floor(Math.random()
\* * n) is one of 0..n-1
GenerateRandomPhoneCall(runs) ==
    /\ \E t \in {Providers[i] : i \in 1..Len(Providers)} \cup {Omitted} :
         \E i \in 0..((IF t = Omitted THEN 4 ELSE 1) - 1) :
           \E j \in 0..(Len(TELCO_DATA[IF t = Omitted THEN Providers[i + 1] ELSE t]) - 1) :
             \E ds \in runs :
               /\ telco' = t
               /\ random' = [provider |-> i, prefix |-> j, digits |-> ds]
               /\ result' = generateRandomPhone(t, random').value
               /\ thrown' = generateRandomPhone(t, random').error
    /\ op' = "generateRandomPhone"
    /\ phone' = <<>>
    /\ format' = Omitted
    /\ phones' = <<>>
    /\ prev' = cache
    /\ UNCHANGED <<cache, maxSize, call, ret, uses, prevUses, raceVars, tableVars,
                   moneyVars>>

GenerateRandomPhone ==
    /\ op = "init"
    /\ GenerateRandomPhoneCall(RandomDigits)

RandomNext == GenerateRandomPhone

SpecRandom == RandomInit /\ [][RandomNext]_vars

(***************************************************************************)
(* Any public function called after any other, around the result cache     *)
(***************************************************************************)
\* two spellings of one number and an invalid string
CallInputs ==
    { S(<<0,8,0,3,1,2,3,4,5,6,7>>),
      Insert(S(<<0,8,0,3,1,2,3,4,5,6,7>>), 4, " "),
      S(<<1,2,3>>) }

\* the arguments of the other calls: a string that may be resident and one
\* that is rejected
AsideInputs == { Insert(S(<<0,8,0,3,1,2,3,4,5,6,7>>), 4, " "), S(<<1,2,3>>) }

\* the functions of index.ts that do not name phoneInfoCache
CallsAside ==
    \E x \in AsideInputs :
        \/ NormalizePhoneCall(x)
        \/ SafeNormalizePhoneCall(x)
        \/ IsValidNigerianNumberCall(x)
        \/ GetTelcoCall(x)
        \/ SplitPhonePartsCall(x)
        \/ ValidatePhoneFormatCall(x)
        \/ BatchNormalizePhonesCall(x)
        \/ BatchGetTelcosCall(x)
        \/ BatchValidatePhonesCall(x)

CallsNext ==
    \/ \E x \in CallInputs : GetPhoneInfoCall(x)
    \/ ClearCaches
    \/ GetPerformanceStats
    \/ CallsAside
    \/ GenerateRandomPhoneCall({Run(<<"9">>, 7)})

SpecCalls == InfoInit /\ [][CallsNext]_vars

(***************************************************************************)
(* Properties of the LRUCache, checked under SpecCache                     *)
(***************************************************************************)
\* C1: for every maximum size n >= 0, after every sequence of set, get, has,
\* delete and clear calls the cache stores at most n entries
C1_SizeWithinCapacity == LRUCache_size(cache) <= maxSize

\* the entries of m other than those of the keys in ks
Others(m, ks) == SelectSeq(m, LAMBDA e : e.key \notin ks)

\* C2: set(k, v) on a full cache of maximum size >= 1 with k absent evicts
\* exactly one entry, the one set or successfully got least recently; with k
\* present it replaces the value, makes k the most recently used and evicts
\* nothing
C2_EvictsLeastRecentlyUsed ==
    (call.op = "set" /\ maxSize >= 1 /\ Len(prev) = maxSize) =>
        /\ cache[Len(cache)] = [key |-> call.key, value |-> call.value]
        /\ uses[Len(uses)] = call.key
        /\ IF MapHas(prev, call.key)
           THEN /\ MapKeys(cache) = MapKeys(prev)
                /\ Others(cache, {call.key}) = Others(prev, {call.key})
           ELSE /\ MapKeys(prev) \ MapKeys(cache) = {prevUses[1]}
                /\ Others(cache, {call.key}) = Others(prev, {prevUses[1]})

\* C2 for a cache whose least recently used key is not undefined
C2_EvictsDefinedKey ==
    (call.op = "set" /\ maxSize >= 1 /\ Len(prev) = maxSize /\ prevUses[1] # Undefined)
        => C2_EvictsLeastRecentlyUsed

\* the Map lists the stored keys from the least to the most recently used
MapOrderIsRecency == uses = [i \in 1..Len(cache) |-> cache[i].key]

(***************************************************************************)
(* Properties of the raced getPhoneInfo, checked under SpecRace            *)
(***************************************************************************)
\* C3: with getPhoneInfo calls interleaved between the cache's get and set,
\* the cache stays within its capacity, stores no key twice, stores under
\* every key the record derived from that key, and every call returns the
\* record of its argument: the race only computes a record twice
C3_RaceKeepsCacheConsistent ==
    /\ LRUCache_size(cache) <= maxSize
    /\ \A i, j \in 1..Len(cache) : cache[i].key = cache[j].key => i = j
    /\ \A i \in 1..Len(cache) :
          /\ cache[i].value.original = cache[i].key
          /\ cache[i].value = ComputeInfo(cache[i].key)
    /\ \A c \in Callers :
          pc[c] \in {"hit", "done"} =>
              info[c].original = arg[c] /\ info[c] = ComputeInfo(arg[c])

\* two callers missed on the same key, both computed and both stored it
C3_Witness ==
    /\ pc[1] = "done" /\ pc[2] = "done"
    /\ arg[1] = arg[2]
    /\ info[1].isValid
    /\ LRUCache_size(cache) = maxSize

(***************************************************************************)
(* Properties of normalizePhone and getTelco, checked under Spec           *)
(***************************************************************************)
AllDigits(s) == \A i \in 1..Len(s) : s[i] \in {"0", "1", "2", "3", "4", "5", "6", "7", "8", "9"}

CountryCode == <<"+", "2", "3", "4">>

\* '+234' followed by exactly 10 digits
IsCanonical(s) ==
    Len(s) = 14 /\ SubSeq(s, 1, 4) = CountryCode /\ AllDigits(SubSeq(s, 5, 14))

\* x with every character other than digits and '+' removed
DigitsAndPlus(x) ==
    SelectSeq(x, LAMBDA c : c = "+" \/ AllDigits(<<c>>))

Normalized == op = "normalizePhone"

\* C4: whenever normalizePhone returns, the result is '+234' and exactly 10
\* digits for the formats e164, international and the default, and '0' and the
\* same 10 digits for local
C4_ResultShape ==
    (Normalized /\ result.ok) =>
        IF format = "local"
        THEN /\ Len(result.value) = 11
             /\ result.value[1] = "0"
             /\ CountryCode \o SubSeq(result.value, 2, 11) = normalizePhone(phone, "e164").value
             /\ IsCanonical(normalizePhone(phone, "e164").value)
        ELSE IsCanonical(result.value)

C4_Witness ==
    /\ Normalized /\ result.ok /\ format = "local"
    /\ phone = Insert(S(<<2,3,4,8,0,3,1,2,3,4,5,6,7>>), 5, "-")
    /\ result.value = S(<<0,8,0,3,1,2,3,4,5,6,7>>)

\* the four accepted spellings of the 10 digits d, after the cleanup
AcceptedSpelling(c) ==
    \/ Len(c) = 14 /\ IsCanonical(c)
    \/ Len(c) = 13 /\ SubSeq(c, 1, 3) = <<"2", "3", "4">> /\ AllDigits(c)
    \/ Len(c) = 11 /\ c[1] = "0" /\ AllDigits(c)
    \/ Len(c) = 10 /\ AllDigits(c) /\ c[1] \notin {"0", "2"}

\* C5: normalizePhone(x) succeeds exactly when the cleaned x is '+234'+d,
\* '234'+d, '0'+d, or d with a first digit other than 0 or 2, d being 10
\* digits, and then returns '+234'+d
C5_AcceptedExactly ==
    (Normalized /\ format = Omitted) =>
        LET c == DigitsAndPlus(phone)
        IN  /\ result.ok <=> AcceptedSpelling(c)
            /\ result.ok => result.value = CountryCode \o SubSeq(c, Len(c) - 9, Len(c))

C5_Witness ==
    /\ Normalized /\ format = Omitted /\ result.ok
    /\ phone = S(<<8,0,3,1,2,3,4,5,6,7>>)
    /\ result.value = CountryCode \o phone

\* the error kind the order of checks of C6 fixes for a rejected input
ErrorKind(x) ==
    LET c == DigitsAndPlus(x)
        n == Len(c)
    IN  IF x = <<>> THEN "EmptyOrNonStringInput"
        ELSE IF n < 10 \/ n > 14 THEN "InvalidLength"
        ELSE IF c[1] = "+" /\ SubSeq(c, 1, 4) # CountryCode THEN "InvalidCountryCode"
        ELSE IF c[1] = "2" /\ SubSeq(c, 1, 3) # <<"2", "3", "4">> THEN "InvalidCountryCode"
        ELSE IF c[1] = "0" /\ n = 10 THEN "InvalidLocalNumber"
        ELSE IF c[1] = "0" /\ n \in 12..14 THEN "InvalidLength"
        ELSE IF c[1] \notin {"+", "2", "0"} /\ n # 10 THEN "InvalidFormat"
        ELSE "InvalidNigerianNumber"

RECURSIVE DropPlusAfterDigit(_, _)
DropPlusAfterDigit(x, seenDigit) ==
    IF x = <<>> THEN <<>>
    ELSE IF Head(x) = "+" /\ seenDigit
         THEN DropPlusAfterDigit(Tail(x), seenDigit)
         ELSE <<Head(x)>> \o DropPlusAfterDigit(Tail(x), seenDigit \/ AllDigits(<<Head(x)>>))

PlusAfterDigit(x) == DropPlusAfterDigit(x, FALSE) # x

\* C7 as stated: a '+' that follows a digit is stripped like a separator, so
\* an input that normalizes without such a '+' normalizes to the same result
\* with it
C7_InnerPlusStripped ==
    (Normalized /\ normalizePhone(DropPlusAfterDigit(phone, FALSE), format).ok) =>
        result = normalizePhone(DropPlusAfterDigit(phone, FALSE), format)

\* C7, amended: the cleanup keeps every '+', also one that follows a digit,
\* and an input with such a '+' is rejected, whatever it normalizes to
\* without it
C7_InnerPlusRejected ==
    (Normalized /\ PlusAfterDigit(phone)) => ~result.ok

\* '0803+1234567' fails on its length where '08031234567' is accepted
C7_Witness ==
    /\ Normalized /\ format = Omitted
    /\ phone = Insert(S(<<0,8,0,3,1,2,3,4,5,6,7>>), 4, "+")
    /\ ~result.ok /\ result.error = "InvalidLength"
    /\ normalizePhone(DropPlusAfterDigit(phone, FALSE), format).ok

\* C8: for an accepted x and all formats f and g,
\* normalizePhone(normalizePhone(x, f), g) = normalizePhone(x, g); a valid
\* 11-digit local number converted back to local is unchanged; and
\* formatPhoneToLocal(formatPhoneToInternational(x)) = formatPhoneToLocal(x)
C8_RoundTrip ==
    (Normalized /\ result.ok) =>
        /\ \A g \in Formats : normalizePhone(result.value, g) = normalizePhone(phone, g)
        /\ (Len(phone) = 11 /\ phone[1] = "0" /\ AllDigits(phone))
              => normalizePhone(result.value, "local").value = phone
        /\ formatPhoneToLocal(formatPhoneToInternational(phone).value)
              = formatPhoneToLocal(phone)

C8_Witness ==
    /\ Normalized /\ result.ok /\ format = "local"
    /\ phone = CountryCode \o S(<<0,8,0,3,1,2,3,4,5,6>>)
    /\ normalizePhone(result.value, "e164").value = phone

\* characters that are neither digits nor '+'
OtherChars == {" ", "-", ")", "a"}

\* C9: putting characters that are neither digits nor '+' anywhere into a
\* non-empty input changes neither the string normalizePhone returns nor the
\* error kind it fails with
C9_SeparatorsIgnored ==
    (Normalized /\ phone # <<>>) =>
        \A p \in 0..Len(phone) : \A c \in OtherChars :
            normalizePhone(Insert(phone, p, c), format) = result

C9_Witness ==
    /\ Normalized /\ result.ok
    /\ phone = Insert(S(<<0,8,0,3,1,2,3,4,5,6,7>>), 4, " ")
    /\ result = normalizePhone(Insert(Insert(phone, 8, " "), 0, "("), format)

Declared(p) == p \in DeclaredPrefixes

DeclaredBy(p) == CHOOSE t \in DOMAIN TELCO_DATA : \E i \in 1..Len(TELCO_DATA[t]) : TELCO_DATA[t][i] = p

\* C10: for every valid number getTelco gives the provider of the first 5
\* characters of the local form when that is a declared prefix, otherwise the
\* provider of the first 4, and null exactly when neither is declared
C10_LongestPrefixFirst ==
    (op = "getTelco" /\ normalizePhone(phone, Omitted).ok) =>
        LET localForm == <<"0">> \o SubSeq(normalizePhone(phone, Omitted).value, 5, 14)
            p5 == SubSeq(localForm, 1, 5)
            p4 == SubSeq(localForm, 1, 4)
        IN  /\ Declared(p5) => result = DeclaredBy(p5)
            /\ (~Declared(p5) /\ Declared(p4)) => result = DeclaredBy(p4)
            /\ result = Null <=> (~Declared(p5) /\ ~Declared(p4))

\* '07025...' has no declared 4-digit prefix and is found by its 5-digit one
C10_Witness ==
    /\ op = "getTelco" /\ result = "MTN"
    /\ phone = CountryCode \o S(<<7,0,2,5,1,2,3,4,5,6>>)
    /\ ~Declared(S(<<0,7,0,2>>))

(***************************************************************************)
(* Properties of the prefix table and of the derived operations, checked   *)
(* under Spec                                                              *)
(***************************************************************************)
\* the providers whose list holds p
DeclaredIn(p) ==
    {t \in DOMAIN TELCO_DATA : \E i \in 1..Len(TELCO_DATA[t]) : TELCO_DATA[t][i] = p}

\* C11: no prefix is declared by more than one provider; PREFIX_MAP holds one
\* entry per declared prefix, mapping it to its provider, and no other key;
\* getTelcoByPrefix(p) is the provider of a declared p and null otherwise
C11_PrefixTable ==
    (op = "getTelcoByPrefix") =>
        /\ \A p \in DeclaredPrefixes : Cardinality(DeclaredIn(p)) = 1
        /\ MapKeys(PREFIX_MAP) = DeclaredPrefixes
        /\ Len(PREFIX_MAP) = Cardinality(DeclaredPrefixes)
        /\ \A i \in 1..Len(PREFIX_MAP) :
              DeclaredIn(PREFIX_MAP[i].key) = {PREFIX_MAP[i].value}
        /\ result = IF Declared(phone) THEN DeclaredBy(phone) ELSE Null

\* a 5-character prefix is looked up as a whole
C11_Witness ==
    /\ op = "getTelcoByPrefix" /\ phone = S(<<0,7,0,2,5>>) /\ result = "MTN"
    /\ getTelcoByPrefix(S(<<0,7,0,2>>)) = Null
    /\ getTelcoByPrefix(S(<<0,8,0,3,1>>)) = Null

\* the operations that absorb the errors of normalizePhone
Absorbing ==
    {"getTelco", "isValidNigerianNumber", "safeNormalizePhone", "getPhoneInfo",
     "batchNormalizePhones", "batchGetTelcos", "batchValidatePhones"}

\* normalizePhone(x, f) throws
Rejected(x, f) == ~normalizePhone(x, f).ok

\* C12: getTelco, isValidNigerianNumber, safeNormalizePhone, getPhoneInfo and
\* the three batch operations throw for no string input, empty or rejected
\* for any of the six reasons; a rejected input shows as null, false,
\* success = false or isValid = false, also inside a batch
C12_FailuresAbsorbed ==
    (op \in Absorbing) =>
        /\ thrown = "none"
        /\ (op = "getTelco" /\ Rejected(phone, Omitted)) => result = Null
        /\ (op = "isValidNigerianNumber" /\ Rejected(phone, Omitted)) => result = FALSE
        /\ (op = "safeNormalizePhone" /\ Rejected(phone, format)) =>
              result.success = FALSE /\ result.data = Null
        /\ (op = "getPhoneInfo" /\ Rejected(phone, Omitted)) => result.isValid = FALSE
        /\ (op \in {"batchNormalizePhones", "batchGetTelcos", "batchValidatePhones"}) =>
              /\ Len(result) = Len(phones)
              /\ \A i \in 1..Len(phones) :
                    Rejected(phones[i], Omitted) =>
                        CASE op = "batchNormalizePhones" -> result[i].success = FALSE
                          [] op = "batchGetTelcos" -> result[i] = Null
                          [] op = "batchValidatePhones" -> result[i] = FALSE

\* a batch of a number with a wrong country code and the empty string gives
\* two failed results
C12_Witness ==
    /\ op = "batchNormalizePhones" /\ thrown = "none"
    /\ phones = << <<"+", "2", "3", "5">> \o S(<<8,0,3,1,2,3,4,5,6,7>>), <<>> >>
    /\ ErrorKind(phones[1]) = "InvalidCountryCode"
    /\ ~result[1].success /\ ~result[2].success

\* the operations that let the errors of normalizePhone through
Throwing == {"splitPhoneParts", "formatPhoneToInternational", "formatPhoneToLocal"}

C14_InvalidRecord ==
    (op = "getPhoneInfo" /\ Rejected(phone, Omitted)) =>
        /\ thrown = "none"
        /\ result = [original |-> phone, normalized |-> <<>>, telco |-> Null,
                     isValid |-> FALSE, format |-> "e164", prefix |-> <<>>,
                     number |-> <<>>]

\* '+18031234567' begins with '+' and is tagged 'e164' all the same
C14_Witness ==
    /\ op = "getPhoneInfo" /\ phone = <<"+", "1">> \o S(<<8,0,3,1,2,3,4,5,6,7>>)
    /\ Rejected(phone, Omitted)
    /\ result.original = phone /\ result.format = "e164" /\ ~result.isValid

\* C15: for every input x normalizePhone accepts, getPhoneInfo(x) has
\* original = x, isValid = true, normalized = normalizePhone(x),
\* telco = getTelco(x), and the prefix and number of splitPhoneParts(x)
C15_ValidRecord ==
    (op = "getPhoneInfo" /\ ~Rejected(phone, Omitted)) =>
        /\ thrown = "none"
        /\ result.original = phone
        /\ result.isValid = TRUE
        /\ result.normalized = normalizePhone(phone, Omitted).value
        /\ result.telco = getTelco(phone)
        /\ result.prefix = splitPhoneParts(phone).prefix
        /\ result.number = splitPhoneParts(phone).number

\* a number written with a space keeps the space in original
C15_Witness ==
    /\ op = "getPhoneInfo" /\ phone = Insert(S(<<0,8,0,3,1,2,3,4,5,6,7>>), 4, " ")
    /\ result = [original |-> phone,
                 normalized |-> CountryCode \o S(<<8,0,3,1,2,3,4,5,6,7>>),
                 telco |-> "MTN", isValid |-> TRUE, format |-> "local",
                 prefix |-> S(<<0,8,0,3>>), number |-> S(<<8,0,3,1,2,3,4,5,6,7>>)]

\* C16: for every valid input the format tag of getPhoneInfo follows from the
\* first character of the raw input alone: '+' gives 'international', '0'
\* gives 'local', anything else 'e164', be it a '234...' number, a bare
\* 10-digit number or an input that begins with a separator
C16_FormatTag ==
    (op = "getPhoneInfo" /\ ~Rejected(phone, Omitted)) =>
        /\ result.format = IF phone[1] = "+" THEN "international"
                           ELSE IF phone[1] = "0" THEN "local"
                           ELSE "e164"
        /\ phone[1] \in Separators => result.format = "e164"
        /\ (phone[1] = "2" \/ Len(phone) = 10) => result.format = "e164"

\* '(08031234567' is a local number tagged 'e164'
C16_Witness ==
    /\ op = "getPhoneInfo" /\ phone = <<"(">> \o S(<<0,8,0,3,1,2,3,4,5,6,7>>)
    /\ result.isValid /\ result.format = "e164"
    /\ result.normalized = CountryCode \o S(<<8,0,3,1,2,3,4,5,6,7>>)

\* C17: for every valid input splitPhoneParts returns as number the 10 digits
\* of the canonical form after '+234', whatever prefix matched; as prefix the
\* declared 5-character prefix of the local form, else its declared
\* 4-character prefix, else ''; and as telco getTelco of the input, which is
\* null exactly when the prefix is ''
C17_Parts ==
    (op = "splitPhoneParts" /\ result.ok) =>
        LET canonical == normalizePhone(phone, Omitted).value
            localForm == <<"0">> \o SubSeq(canonical, 5, 14)
            p5 == SubSeq(localForm, 1, 5)
            p4 == SubSeq(localForm, 1, 4)
        IN  /\ result.number = SubSeq(canonical, 5, 14)
            /\ result.prefix = IF Declared(p5) THEN p5
                               ELSE IF Declared(p4) THEN p4
                               ELSE <<>>
            /\ result.telco = getTelco(phone)
            /\ (result.telco = Null) <=> (result.prefix = <<>>)

\* '07025123456' matches the 5-character prefix and keeps all 10 digits
C17_Witness ==
    /\ op = "splitPhoneParts" /\ phone = S(<<0,7,0,2,5,1,2,3,4,5,6>>)
    /\ result.prefix = S(<<0,7,0,2,5>>) /\ result.telco = "MTN"
    /\ result.number = S(<<7,0,2,5,1,2,3,4,5,6>>)

(***************************************************************************)
(* Properties of the result cache, checked under SpecInfo                  *)
(***************************************************************************)
\* the entries of m whose key is k
EntriesOf(m, k) == {i \in 1..Len(m) : m[i].key = k}

\* x and y are raw spellings of one valid number
SameNumber(x, y) ==
    /\ normalizePhone(x, Omitted).ok
    /\ normalizePhone(x, Omitted) = normalizePhone(y, Omitted)

\* C18: the result cache is keyed by the raw string. A getPhoneInfo call
\* whose raw string is resident returns the record stored under it, the one
\* the earlier call returned, and adds no entry; a call whose raw string is
\* not resident, also when another spelling of the same number is, stores
\* its record under its own raw string as one more entry, beside the entry
\* of the other spelling when there is room
C18_KeyedByRawString ==
    (op = "getPhoneInfo") =>
        /\ \A k \in MapKeys(prev) \cap MapKeys(cache) : MapGet(cache, k) = MapGet(prev, k)
        /\ MapHas(prev, phone) =>
              /\ result = MapGet(prev, phone)
              /\ MapKeys(cache) = MapKeys(prev)
              /\ Len(cache) = Len(prev)
        /\ ~MapHas(prev, phone) =>
              /\ Cardinality(EntriesOf(cache, phone)) = 1
              /\ MapGet(cache, phone) = result
              /\ Len(cache) = IF Len(prev) < maxSize THEN Len(prev) + 1 ELSE Len(prev)
              /\ \A y \in MapKeys(prev) :
                    (SameNumber(y, phone) /\ Len(prev) < maxSize) =>
                        /\ MapHas(cache, y)
                        /\ EntriesOf(cache, y) # EntriesOf(cache, phone)
                        /\ MapGet(cache, y).normalized = result.normalized

\* '0803 1234567' after '08031234567': two entries for one number
C18_Witness ==
    /\ op = "getPhoneInfo" /\ phone = Insert(S(<<0,8,0,3,1,2,3,4,5,6,7>>), 4, " ")
    /\ MapKeys(prev) = {S(<<0,8,0,3,1,2,3,4,5,6,7>>)}
    /\ MapKeys(cache) = {S(<<0,8,0,3,1,2,3,4,5,6,7>>), phone}
    /\ Len(cache) = 2
    /\ MapGet(cache, phone).normalized = MapGet(cache, S(<<0,8,0,3,1,2,3,4,5,6,7>>)).normalized

(***************************************************************************)
(* Properties of get, has and delete, checked under SpecCache              *)
(***************************************************************************)
\* the keys of m in the order of the Map, which is the order of eviction
KeyOrder(m) == [i \in 1..Len(m) |-> m[i].key]

\* every key stored before and after the call has kept its value
ValuesKept(ks) == \A k \in ks : MapGet(cache, k) = MapGet(prev, k)

\* C19: get(k) on a present key returns the value stored for k, which is the
\* one of the latest set(k, .) since a set stores its value and no other
\* call changes a stored value; it makes k the most recently used and leaves
\* the key set, the size, every stored value and the order of the other keys
\* as they were. get on an absent key returns undefined and changes nothing
C19_Get ==
    /\ (call.op = "set") =>
          /\ MapGet(cache, call.key) = call.value
          /\ ValuesKept((MapKeys(cache) \cap MapKeys(prev)) \ {call.key})
    /\ (call.op \in {"has", "delete"}) => ValuesKept(MapKeys(cache))
    /\ (call.op = "get") =>
          IF MapHas(prev, call.key)
          THEN /\ ret = MapGet(prev, call.key)
               /\ cache[Len(cache)].key = call.key
               /\ uses[Len(uses)] = call.key
               /\ MapKeys(cache) = MapKeys(prev)
               /\ LRUCache_size(cache) = LRUCache_size(prev)
               /\ ValuesKept(MapKeys(prev))
               /\ Others(cache, {call.key}) = Others(prev, {call.key})
               /\ SelectSeq(uses, LAMBDA k : k # call.key)
                     = SelectSeq(prevUses, LAMBDA k : k # call.key)
          ELSE /\ ret = Undefined
               /\ cache = prev
               /\ uses = prevUses

\* get of the least recently used of two keys makes it the most recently used
C19_Witness ==
    /\ call.op = "get" /\ Len(prev) = 2
    /\ call.key = prev[1].key /\ ret = prev[1].value
    /\ KeyOrder(cache) = <<prev[2].key, prev[1].key>>
    /\ prev[1].value # prev[2].value

\* C20: has(k) changes neither the entries nor the recency order and returns
\* true exactly when k is stored; delete(k) removes the entry of k and no
\* other, returns true exactly when k was stored, and keeps the order of the
\* remaining keys
C20_HasAndDelete ==
    /\ (call.op = "has") =>
          /\ ret <=> MapHas(prev, call.key)
          /\ cache = prev
          /\ uses = prevUses
    /\ (call.op = "delete") =>
          /\ ret <=> MapHas(prev, call.key)
          /\ MapKeys(cache) = MapKeys(prev) \ {call.key}
          /\ cache = Others(prev, {call.key})
          /\ uses = SelectSeq(prevUses, LAMBDA k : k # call.key)

\* delete of the least recently used of two keys leaves the other one alone
C20_Witness ==
    /\ call.op = "delete" /\ Len(prev) = 2
    /\ call.key = prev[1].key /\ ret = TRUE
    /\ cache = <<prev[2]>>

\* C22: for every input x and format f, safeNormalizePhone(x, f) returns
\* {success: true, data: normalizePhone(x, f), error: null} when
\* normalizePhone(x, f) returns and {success: false, data: null, error: the
\* message of the error} when it throws; one of data and error is a string
\* and the other is null
C22_TaggedResult ==
    (op = "safeNormalizePhone") =>
        LET n == normalizePhone(phone, format)
        IN  /\ thrown = "none"
            /\ n.ok => /\ result = [success |-> TRUE, data |-> n.value, error |-> Null]
                       /\ Len(result.data) >= 1 /\ result.error = Null
            /\ ~n.ok => /\ result = [success |-> FALSE, data |-> Null,
                                      error |-> message(n.error, phone)]
                        /\ result.data = Null /\ Len(result.error) >= 1

\* '0803123456' in local format fails with the message of the error thrown
C22_Witness ==
    /\ op = "safeNormalizePhone" /\ format = "local"
    /\ phone = S(<<0,8,0,3,1,2,3,4,5,6>>)
    /\ result = [success |-> FALSE, data |-> Null,
                 error |-> <<"Invalid local number: ">> \o phone]

\* C23: for every array xs and index i, batchNormalizePhones(xs, f)[i] is
\* safeNormalizePhone(xs[i], f), batchGetTelcos(xs)[i] is getTelco(xs[i]) and
\* batchValidatePhones(xs)[i] is isValidNigerianNumber(xs[i]); the output
\* has the length of xs, so an invalid item changes no other item's result
C23_IndexWise ==
    /\ (op = "batchNormalizePhones") =>
          /\ thrown = "none" /\ Len(result) = Len(phones)
          /\ \A i \in 1..Len(phones) :
                result[i] = safeNormalizePhone(phones[i], format).value
    /\ (op = "batchGetTelcos") =>
          /\ thrown = "none" /\ Len(result) = Len(phones)
          /\ \A i \in 1..Len(phones) : result[i] = getTelco(phones[i])
    /\ (op = "batchValidatePhones") =>
          /\ thrown = "none" /\ Len(result) = Len(phones)
          /\ \A i \in 1..Len(phones) :
                result[i] = isValidNigerianNumber(phones[i]).value

\* the empty string before a valid number leaves the number's result alone
C23_Witness ==
    /\ op = "batchNormalizePhones" /\ format = "local"
    /\ phones = << <<>>, S(<<0,8,0,3,1,2,3,4,5,6,7>>) >>
    /\ ~result[1].success
    /\ result[2] = [success |-> TRUE, data |-> phones[2], error |-> Null]

\* x is written in the format f: it matches the validation pattern of f
WrittenIn(x, f) ==
    IF f = "local" THEN LOCAL_VALIDATION(x)
    ELSE IF f = "international" THEN INTERNATIONAL_VALIDATION(x)
    ELSE E164_VALIDATION(x)

\* C25: validatePhoneFormat(x, f) is true only when x is a valid number and
\* is itself written in the format f; a valid number written in another
\* format gives false
C25_ExactFormat ==
    (op = "validatePhoneFormat" /\ result = TRUE) =>
        /\ isValidNigerianNumber(phone) = Return(TRUE)
        /\ WrittenIn(phone, format)

\* C26: isValidatedPhone(x) is true exactly for the valid Nigerian numbers: on
\* every input, accepted in any spelling or rejected, it returns what
\* isValidNigerianNumber(x) returns
C26_AgreesWithValid ==
    (op = "isValidatedPhone") =>
        /\ thrown = "none"
        /\ result = isValidNigerianNumber(phone).value

(***************************************************************************)
(* Properties of formatNaira, checked under SpecMoney                      *)
(***************************************************************************)
\* C27: formatNaira of a negative amount is '-' followed by the formatting
\* of the absolute amount under the same options, compact: true with an
\* absolute amount below 1000 included; the sign is never dropped
C27_SignKept ==
    (op = "formatNaira" /\ isNegativeAmount(amount)) =>
        result = <<"-">> \o formatNaira(abs(amount), options)

ProviderOf(x) ==
    LET n == normalizePhone(x, Omitted)
        localForm == <<"0">> \o SubSeq(n.value, 5, 14)
    IN  IF ~n.ok THEN Null
        ELSE IF Declared(SubSeq(localForm, 1, 5)) THEN DeclaredBy(SubSeq(localForm, 1, 5))
        ELSE IF Declared(SubSeq(localForm, 1, 4)) THEN DeclaredBy(SubSeq(localForm, 1, 4))
        ELSE Null

\* getTelco, getTelcoByPrefix and the reported prefixMapSize are those of the
\* prefix index as loaded
TableAnswers ==
    /\ \A x \in SeqInputs : getTelco(x) = ProviderOf(x)
    /\ \A q \in PrefixInputs :
          getTelcoByPrefix(q) = IF Declared(q) THEN DeclaredBy(q) ELSE Null
    /\ getPerformanceStats(cache, REGEX_CACHE, PREFIX_MAP).prefixMapSize
          = Cardinality(DeclaredPrefixes)

\* C21: clear() leaves the cache with size 0 and every key absent and its
\* maximum size as it was; clearCaches() empties the result cache and the
\* regex cache and leaves the prefix index as it was, and getTelco,
\* getTelcoByPrefix and the reported prefixMapSize give in every state, so
\* before and after a clearCaches, the answers of the index as loaded
C21_ClearFrame ==
    /\ []TableAnswers
    /\ [][ClearCaches =>
            /\ LRUCache_size(cache') = 0
            /\ \A k \in SeqInputs : ~LRUCache_has(cache', k)
            /\ maxSize' = maxSize
            /\ REGEX_CACHE' = <<>>
            /\ PREFIX_MAP' = PREFIX_MAP
       ]_vars

\* clearCaches after two results and a pattern were cached
C21_Witness ==
    /\ op = "clearCaches" /\ Len(prev) = 2
    /\ cache = <<>> /\ REGEX_CACHE = <<>>
    /\ Len(PREFIX_MAP) = 36
    /\ getTelco(S(<<0,7,0,2,5,1,2,3,4,5,6>>)) = "MTN"

\* the record getPhoneInfo(x) returns when the cache is empty
FreshInfo(x) == getPhoneInfo(<<>>, maxSize, x).ret.value

\* C28: in every sequence of getPhoneInfo and clearCaches calls, each
\* getPhoneInfo(x) returns the record computed for x with an empty cache,
\* whether it was a hit or a miss and whatever was evicted or cleared
\* before; every resident entry holds the record of its own key
C28_SameAsFresh ==
    /\ (op = "getPhoneInfo") =>
          /\ thrown = "none"
          /\ result = FreshInfo(phone)
          /\ result.original = phone
    /\ \A i \in 1..Len(cache) :
          /\ cache[i].value = FreshInfo(cache[i].key)
          /\ cache[i].value.original = cache[i].key

\* a hit on '+2348031234567' while '08031234567' is resident too
C28_Witness ==
    /\ op = "getPhoneInfo" /\ phone = CountryCode \o S(<<8,0,3,1,2,3,4,5,6,7>>)
    /\ MapHas(prev, phone)
    /\ MapHas(prev, S(<<0,8,0,3,1,2,3,4,5,6,7>>))
    /\ cache[Len(cache)].key = phone
    /\ result.original = phone /\ result.isValid

(***************************************************************************)
(* Properties of the calls around the result cache, checked under          *)
(* SpecCalls                                                               *)
(***************************************************************************)
\* s without its i-th item
Without(s, i) == SubSeq(s, 1, i - 1) \o SubSeq(s, i + 1, Len(s))

\* C29: only getPhoneInfo and clearCaches modify the result cache. Every
\* other call (normalizePhone, safeNormalizePhone, isValidNigerianNumber,
\* getTelco, splitPhoneParts, validatePhoneFormat, generateRandomPhone, the
\* batch operations, getPerformanceStats) leaves its entries and their order
\* as they were, and a getPhoneInfo call leaves the entries of the other
\* keys as they were but for at most one that it evicts
C29_OnlyTwoWriters ==
    [][ /\ op' \notin {"getPhoneInfo", "clearCaches"} =>
              (cache' = cache /\ maxSize' = maxSize)
        /\ op' = "getPhoneInfo" =>
              \/ Others(cache', {phone'}) = Others(cache, {phone'})
              \/ \E i \in 1..Len(Others(cache, {phone'})) :
                     Others(cache', {phone'}) = Without(Others(cache, {phone'}), i)
      ]_vars

\* batchGetTelcos on a string that is resident beside another entry
C29_Witness ==
    /\ op = "batchGetTelcos"
    /\ phones = <<Insert(S(<<0,8,0,3,1,2,3,4,5,6,7>>), 4, " ")>>
    /\ Len(cache) = 2
    /\ MapHas(cache, phones[1])
    /\ result = <<"MTN">>

(***************************************************************************)
(* The validity indicators, checked under Spec                             *)
(***************************************************************************)
\* C30: the validity indicators agree on every string x:
\* isValidNigerianNumber(x), safeNormalizePhone(x).success,
\* getPhoneInfo(x).isValid and "normalizePhone(x) returns" are the same
\* truth value, and getTelco(x) is not null only when it is true
C30_IndicatorsAgree ==
    LET valid == isValidNigerianNumber(phone).value
    IN  /\ (op = "isValidNigerianNumber") => result = valid
        /\ (op = "safeNormalizePhone") => result.success = valid
        /\ (op = "getPhoneInfo") => result.isValid = valid
        /\ (op = "normalizePhone") => (thrown = "none") = valid
        /\ (op = "getTelco" /\ result # Null) => valid
        /\ safeNormalizePhone(phone, Omitted).value.success = valid
        /\ normalizePhone(phone, Omitted).ok = valid

\* a bare 10-digit number with a separator: every indicator says valid
C30_Witness ==
    /\ op = "getPhoneInfo"
    /\ phone = <<"-">> \o S(<<8,0,3,1,2,3,4,5,6,7>>)
    /\ result.isValid
    /\ isValidNigerianNumber(phone).value
    /\ safeNormalizePhone(phone, Omitted).value.success
    /\ getTelco(phone) = "MTN"

==========================================================================
